---- MODULE Spec2Model ----
(***************************************************************************)
(* The wallet ledger of wallet-service: WalletService.perform_operation    *)
(* and create_wallet over WalletRepository.update_balance / create_wallet, *)
(* run by several callers (threads) against one relational store.          *)
(*                                                                         *)
(* Money is counted in cents (the DECIMAL(15, 2) columns); request amounts *)
(* arrive in mills (1/1000) and are rounded to cents by the request        *)
(* schema's validator.                                                     *)
(*                                                                         *)
(* A caller works through a SQLAlchemy Session.  The row lock taken by     *)
(* SELECT ... FOR UPDATE belongs to the Session's database transaction,    *)
(* and so do the pending (uncommitted) changes: commit() and rollback()    *)
(* act on everything the Session holds.  The HTTP layer builds one service *)
(* and Session per request; the concurrency test suite builds one service  *)
(* and Session and hands it to every thread.  Both wirings are modelled:   *)
(* session 0 is the shared one, session c > 0 is caller c's own.           *)
(***************************************************************************)
EXTENDS Integers, Sequences, FiniteSets, TLC

\* ------------------------------------------------------------- bounds
NumCallers == 2
MaxCalls == 3

\* ---------------------------------------------------- program constants
\* 999999999.99, the largest amount validate_amount accepts: its whole part
\* and its fraction in mills.
MaxAmountWhole == 999999999
MaxAmountFracMills == 990

Callers == 1..NumCallers
SharedSession == 0
Sessions == {SharedSession} \cup Callers

UUIDs == {"u1", "u2"}
InitialBalances == {10000}
RawAmounts == {50000, 100000}
OperationTypes == {"DEPOSIT", "WITHDRAW"}

\* Inputs the service refuses: an identifier uuid.UUID() cannot parse, and
\* an operation type that is neither DEPOSIT nor WITHDRAW.
MalformedIds == {"custom-uuid-123"}
OtherTypes == {"INVALID"}

NoRow == [status |-> "absent"]
Clean == [dirty |-> FALSE]
NoReq == [kind |-> "none"]
NoLoc == [before |-> 0, after |-> 0, began |-> 0]
NoReply == [uuid |-> "none"]

\* The copies of the operation: CRUD.perform_operation,
\* services.perform_operation and WalletRepository.update_balance.
Variants == {"CRUD", "services", "update_balance"}
NoSide == [v \in Variants |-> [balance |-> 0, outcome |-> "none"]]

VARIABLES
    wallets,    \* committed rows of table wallets, by uuid
    txlog,      \* uuid -> committed rows of table transactions, in commit order
    lockedBy,   \* uuid -> the session whose transaction holds the row lock, or -1
    dirty,      \* session -> uuid -> pending attribute values of the Wallet object
    newTx,      \* session -> pending Transaction objects, in add() order
    shared,     \* the callers that use the shared service and session
    pc,         \* caller -> position in its current call
    req,        \* caller -> the request of its current call
    loc,        \* caller -> balance_before / balance_after of update_balance, and
                \* the start time of the database transaction it runs in
    txState,    \* caller -> state of the Transaction object it built
    err,        \* caller -> the exception travelling to the except clause
    result,     \* caller -> outcome of its last finished call
    reply,      \* caller -> the values its last get_wallet_balance returned
    calls,      \* number of calls started so far
    initial,    \* uuid -> initial balance the wallet was created with
    okSum,      \* uuid -> signed sum of the amounts of successfully returned calls
    okCnt,      \* uuid -> number of successfully returned perform_operation calls
    clock,      \* the database server's clock: the last time now() has returned
    side        \* variant of the operation -> the wallet it serves in a side by
                \* side run, and the outcome of its last request

vars == <<wallets, txlog, lockedBy, dirty, newTx, shared, pc, req, loc, txState,
          err, result, reply, calls, initial, okSum, okCnt, clock, side>>

store == <<wallets, txlog>>
ghost == <<initial, okSum, okCnt>>

\* -------------------------------------------------------------- helpers
NoSession == -1

\* get_wallet_service / the test fixture: the Session a caller works through.
\* Either every caller has a session of its own, or the first k >= 2 callers
\* are the threads that were handed the shared one.
Wirings == {{}} \cup {1..k : k \in 2..NumCallers}

SessionOf(c) == IF c \in shared THEN SharedSession ELSE c

\* WalletOperationRequest.validate_amount: v in mills; the result in cents.
RoundCents(v) == (v + 5) \div 10

TooLarge(v) ==
    \/ v \div 1000 > MaxAmountWhole
    \/ (v \div 1000 = MaxAmountWhole /\ v % 1000 > MaxAmountFracMills)

AmountRejected(v) == v <= 0 \/ TooLarge(v)

validate_amount(v) == RoundCents(v)

\* validate_wallet_uuid: uuid.UUID(wallet_uuid) parses the identifier.
validate_wallet_uuid(u) == u \notin MalformedIds

\* WalletService.create_wallet: except ValueError as e: raise ValidationError;
\* every other exception is re-raised as it is.
ServiceError_Raw(e) == e

ServiceError(e) == IF e = "ValueError" THEN "ValidationError" ELSE e

\* What a Session sees of a wallet: its own pending values, else the row.
Exists(u) == wallets[u] # NoRow

ReadBalance(s, u) ==
    IF dirty[s][u] # Clean THEN dirty[s][u].balance ELSE wallets[u].balance

ReadVersion(s, u) ==
    IF dirty[s][u] # Clean THEN dirty[s][u].version ELSE wallets[u].version

\* SELECT ... FOR UPDATE waits while another transaction holds the row lock.
LockFree(s, u) == lockedBy[u] \in {NoSession, s}

ReleaseLocks(s) == [u \in UUIDs |-> IF lockedBy[u] = s THEN NoSession ELSE lockedBy[u]]

\* ------------------------------------------------------------- initial
\* No call is in progress, no session holds anything.
InitSessions ==
    /\ lockedBy = [u \in UUIDs |-> NoSession]
    /\ dirty = [s \in Sessions |-> [u \in UUIDs |-> Clean]]
    /\ newTx = [s \in Sessions |-> <<>>]
    /\ shared \in Wirings
    /\ pc = [c \in Callers |-> "idle"]
    /\ req = [c \in Callers |-> NoReq]
    /\ loc = [c \in Callers |-> NoLoc]
    /\ txState = [c \in Callers |-> "none"]
    /\ err = [c \in Callers |-> "none"]
    /\ result = [c \in Callers |-> "none"]
    /\ reply = [c \in Callers |-> NoReply]
    /\ calls = 0

\* And no operation has been committed yet.
InitCallers ==
    /\ InitSessions
    /\ side = NoSide
    /\ txlog = [u \in UUIDs |-> <<>>]
    /\ okSum = [u \in UUIDs |-> 0]
    /\ okCnt = [u \in UUIDs |-> 0]
    /\ clock = 0

\* The empty store.
Init ==
    /\ wallets = [u \in UUIDs |-> NoRow]
    /\ initial = [u \in UUIDs |-> 0]
    /\ InitCallers

\* ------------------------------------------------- session primitives
\* Session.commit(): everything pending in the session is written, the
\* transaction ends and its row locks are released.
CommitWallets(s) ==
    [u \in UUIDs |->
        IF dirty[s][u] # Clean
        THEN [wallets[u] EXCEPT !.balance = dirty[s][u].balance,
                                !.version = dirty[s][u].version]
        ELSE wallets[u]]

OfWallet(log, u) == SelectSeq(log, LAMBDA t : t.wallet = u)

CommitLog(s) == [u \in UUIDs |-> txlog[u] \o OfWallet(newTx[s], u)]

\* The UPDATE of a flush needs the row lock of every wallet it writes.
CanFlush(s) == \A u \in UUIDs : dirty[s][u] # Clean => LockFree(s, u)

Cleared(s) == [dirty EXCEPT ![s] = [u \in UUIDs |-> Clean]]

TxStateAfter(s, to) ==
    [c \in Callers |->
        IF SessionOf(c) = s /\ txState[c] = "pending" THEN to ELSE txState[c]]

\* -------------------------------------------------------- create_wallet
\* WalletService.create_wallet: the format check of the identifier, then the
\* repository.  A request refused on entry is kept in req with its number.
CreateStart(c, u, b) ==
    /\ pc[c] = "idle"
    /\ calls < MaxCalls
    /\ calls' = calls + 1
    /\ IF ~validate_wallet_uuid(u)
       THEN /\ result' = [result EXCEPT ![c] = ServiceError("ValidationError")]
            /\ req' = [req EXCEPT ![c] = [kind |-> "create", uuid |-> u, call |-> calls']]
            /\ UNCHANGED pc
       ELSE /\ pc' = [pc EXCEPT ![c] = "cr_check"]
            /\ req' = [req EXCEPT ![c] = [kind |-> "create", uuid |-> u, amount |-> b]]
            /\ result' = [result EXCEPT ![c] = "none"]
    /\ UNCHANGED <<store, lockedBy, dirty, newTx, shared, reply, loc, txState, err, ghost, clock, side>>

\* WalletRepository.create_wallet: the format check and the existence check
\* (no lock is taken); both raise ValueError.
CreateCheck(c) ==
    /\ pc[c] = "cr_check"
    /\ IF ~validate_wallet_uuid(req[c].uuid) \/ Exists(req[c].uuid)
       THEN /\ result' = [result EXCEPT ![c] = ServiceError("ValueError")]
            /\ pc' = [pc EXCEPT ![c] = "idle"]
            /\ req' = [req EXCEPT ![c] = NoReq]
       ELSE /\ pc' = [pc EXCEPT ![c] = "cr_insert"]
            /\ UNCHANGED <<result, req>>
    /\ UNCHANGED <<store, lockedBy, dirty, newTx, shared, reply, loc, txState, err, calls, ghost, clock, side>>

\* BaseRepository.create: add, commit, refresh.  The unique index on uuid
\* rejects a second row with the same uuid (IntegrityError at the flush).
CreateInsert(c) ==
    LET s == SessionOf(c)
        u == req[c].uuid
    IN  /\ pc[c] = "cr_insert"
        /\ CanFlush(s)
        /\ IF Exists(u)
           THEN /\ result' = [result EXCEPT ![c] = "IntegrityError"]
                /\ txState' = TxStateAfter(s, "detached")
                /\ UNCHANGED <<store, ghost>>
           ELSE /\ wallets' = [CommitWallets(s) EXCEPT ![u] =
                         [status |-> "active", balance |-> req[c].amount, version |-> 1]]
                /\ txlog' = CommitLog(s)
                /\ txState' = TxStateAfter(s, "persistent")
                /\ initial' = [initial EXCEPT ![u] = req[c].amount]
                /\ result' = [result EXCEPT ![c] = "ok"]
                /\ UNCHANGED <<okSum, okCnt>>
        /\ dirty' = Cleared(s)
        /\ newTx' = [newTx EXCEPT ![s] = <<>>]
        /\ lockedBy' = ReleaseLocks(s)
        /\ pc' = [pc EXCEPT ![c] = "idle"]
        /\ req' = [req EXCEPT ![c] = NoReq]
        /\ UNCHANGED <<shared, reply, loc, err, calls, clock, side>>

\* ---------------------------------------------------- perform_operation
\* A perform_operation that hands every operation type to update_balance.
PerformStart_Unchecked(c, u, t, v) ==
    /\ pc[c] = "idle"
    /\ calls < MaxCalls
    /\ calls' = calls + 1
    /\ result' = [result EXCEPT ![c] = "none"]
    /\ req' = [req EXCEPT ![c] =
                 [kind |-> "op", uuid |-> u, type |-> t, amount |-> validate_amount(v)]]
    /\ pc' = [pc EXCEPT ![c] = "lock"]
    /\ UNCHANGED <<store, lockedBy, dirty, newTx, shared, reply, loc, txState, err, ghost, clock, side>>

\* The request passes WalletOperationRequest (gt=0, validate_amount) and
\* WalletService.perform_operation's type check, then enters update_balance.
PerformStart(c, u, t, v) ==
    /\ pc[c] = "idle"
    /\ calls < MaxCalls
    /\ calls' = calls + 1
    /\ IF AmountRejected(v)
       THEN /\ result' = [result EXCEPT ![c] = "RequestRejected"]
            /\ UNCHANGED <<pc, req>>
       ELSE IF t \notin OperationTypes
       THEN /\ result' = [result EXCEPT ![c] = "ValidationError"]
            /\ req' = [req EXCEPT ![c] =
                         [kind |-> "op", uuid |-> u, type |-> t, call |-> calls']]
            /\ UNCHANGED pc
       ELSE /\ result' = [result EXCEPT ![c] = "none"]
            /\ req' = [req EXCEPT ![c] =
                         [kind |-> "op", uuid |-> u, type |-> t, amount |-> validate_amount(v)]]
            /\ pc' = [pc EXCEPT ![c] = "lock"]
    /\ UNCHANGED <<store, lockedBy, dirty, newTx, shared, reply, loc, txState, err, ghost, clock, side>>

\* A get_wallet_with_lock that inserts the row it does not find, with
\* balance 0, instead of failing.
LockWallet_Upsert(c) ==
    LET s == SessionOf(c)
        u == req[c].uuid
    IN  /\ pc[c] = "lock"
        /\ LockFree(s, u)
        /\ wallets' = [wallets EXCEPT ![u] =
                IF Exists(u) THEN @ ELSE [status |-> "active", balance |-> 0, version |-> 1]]
        /\ lockedBy' = [lockedBy EXCEPT ![u] = s]
        /\ pc' = [pc EXCEPT ![c] = "calc"]
        /\ UNCHANGED <<txlog, dirty, newTx, shared, reply, req, loc, txState, err, result, calls, ghost, clock, side>>

\* get_wallet_with_lock, and the NotFoundError when it returns no row.
LockWallet(c) ==
    LET s == SessionOf(c)
        u == req[c].uuid
    IN  /\ pc[c] = "lock"
        /\ IF ~Exists(u)
           THEN /\ err' = [err EXCEPT ![c] = "NotFound"]
                /\ pc' = [pc EXCEPT ![c] = "rollback"]
                /\ UNCHANGED lockedBy
           ELSE /\ LockFree(s, u)
                /\ lockedBy' = [lockedBy EXCEPT ![u] = s]
                /\ pc' = [pc EXCEPT ![c] = "calc"]
                /\ UNCHANGED err
        /\ UNCHANGED <<store, dirty, newTx, shared, reply, req, loc, txState, result, calls, ghost, clock, side>>

\* The status check and the computation of balance_after.
BalanceAfter(t, before, amount) ==
    IF t = "DEPOSIT" THEN before + amount ELSE before - amount

\* A balance check that lets every withdrawal through.
Insufficient_Unchecked(t, after) == FALSE

\* A balance check that also refuses the withdrawal that empties the wallet.
Insufficient_Strict(t, after) == t = "WITHDRAW" /\ after <= 0

\* if balance_after < 0: raise InsufficientFundsError
Insufficient(t, after) == t = "WITHDRAW" /\ after < 0

Calc(c) ==
    LET s == SessionOf(c)
        u == req[c].uuid
        before == ReadBalance(s, u)
        after == BalanceAfter(req[c].type, before, req[c].amount)
    IN  /\ pc[c] = "calc"
        /\ IF wallets[u].status # "active"
           THEN /\ err' = [err EXCEPT ![c] = "ValueError"]
                /\ pc' = [pc EXCEPT ![c] = "rollback"]
                /\ UNCHANGED loc
           ELSE IF req[c].type \notin OperationTypes
           THEN /\ err' = [err EXCEPT ![c] = "ValueError"]
                /\ pc' = [pc EXCEPT ![c] = "rollback"]
                /\ UNCHANGED loc
           ELSE IF Insufficient(req[c].type, after)
           THEN /\ err' = [err EXCEPT ![c] = "InsufficientFunds"]
                /\ pc' = [pc EXCEPT ![c] = "rollback"]
                /\ loc' = [loc EXCEPT ![c].before = before, ![c].after = after]
           ELSE /\ loc' = [loc EXCEPT ![c].before = before, ![c].after = after]
                /\ pc' = [pc EXCEPT ![c] = "write"]
                /\ UNCHANGED err
        /\ UNCHANGED <<store, lockedBy, dirty, newTx, shared, reply, req, txState, result, calls, ghost, clock, side>>

\* wallet.balance = balance_after; wallet.version += 1
NextVersion(v) == v + 1

WriteWallet(c) ==
    LET s == SessionOf(c)
        u == req[c].uuid
    IN  /\ pc[c] = "write"
        /\ dirty' = [dirty EXCEPT ![s][u] =
                        [dirty |-> TRUE, balance |-> loc[c].after,
                         version |-> NextVersion(ReadVersion(s, u))]]
        /\ pc' = [pc EXCEPT ![c] = "add"]
        /\ UNCHANGED <<store, lockedBy, newTx, shared, reply, req, loc, txState, err, result, calls, ghost, clock, side>>

\* transaction = Transaction(...); self.db.add(transaction).  created_at
\* is filled by its default, now(): the start time of the database
\* transaction that inserts the row.
NewTransaction(c) ==
    [wallet |-> req[c].uuid, type |-> req[c].type, amount |-> req[c].amount,
     before |-> loc[c].before, after |-> loc[c].after, created |-> loc[c].began]

AddTransaction(c) ==
    LET s == SessionOf(c)
    IN  /\ pc[c] = "add"
        /\ newTx' = [newTx EXCEPT ![s] = Append(newTx[s], NewTransaction(c))]
        /\ txState' = [txState EXCEPT ![c] = "pending"]
        /\ pc' = [pc EXCEPT ![c] = "commit"]
        /\ UNCHANGED <<store, lockedBy, dirty, shared, reply, req, loc, err, result, calls, ghost, clock, side>>

\* refresh(transaction) raises for an object the session does not hold as
\* persistent: one that a rollback() expunged before this commit.
Signed(t, amount) == IF t = "DEPOSIT" THEN amount ELSE 0 - amount

\* self.db.commit(), the two refresh calls and the return; perform_operation
\* builds its response from the refreshed rows.
Commit(c) ==
    LET s == SessionOf(c)
        u == req[c].uuid
    IN  /\ pc[c] = "commit"
        /\ CanFlush(s)
        /\ wallets' = CommitWallets(s)
        /\ txlog' = CommitLog(s)
        /\ dirty' = Cleared(s)
        /\ newTx' = [newTx EXCEPT ![s] = <<>>]
        /\ lockedBy' = ReleaseLocks(s)
        /\ IF txState[c] = "pending"
           THEN /\ txState' = [TxStateAfter(s, "persistent") EXCEPT ![c] = "none"]
                /\ result' = [result EXCEPT ![c] = "ok"]
                /\ okSum' = [okSum EXCEPT ![u] = @ + Signed(req[c].type, req[c].amount)]
                /\ okCnt' = [okCnt EXCEPT ![u] = @ + 1]
                /\ pc' = [pc EXCEPT ![c] = "idle"]
                /\ req' = [req EXCEPT ![c] = NoReq]
                /\ loc' = [loc EXCEPT ![c] = NoLoc]
                /\ UNCHANGED err
           ELSE /\ txState' = TxStateAfter(s, "persistent")
                /\ err' = [err EXCEPT ![c] = "InvalidRequestError"]
                /\ pc' = [pc EXCEPT ![c] = "rollback"]
                /\ UNCHANGED <<result, okSum, okCnt, req, loc>>
        /\ UNCHANGED <<shared, reply, calls, initial, clock, side>>

\* self.db.commit() raising: the database transaction is gone, and with it
\* the session's pending changes and row locks; control passes to the
\* except clause.
CommitFail(c) ==
    LET s == SessionOf(c)
    IN  /\ pc[c] = "commit"
        /\ dirty' = Cleared(s)
        /\ newTx' = [newTx EXCEPT ![s] = <<>>]
        /\ lockedBy' = ReleaseLocks(s)
        /\ txState' = TxStateAfter(s, "detached")
        /\ err' = [err EXCEPT ![c] = "StoreError"]
        /\ pc' = [pc EXCEPT ![c] = "rollback"]
        /\ UNCHANGED <<store, shared, reply, req, loc, result, calls, ghost, clock, side>>

\* except Exception: self.db.rollback(); raise
Rollback(c) ==
    LET s == SessionOf(c)
    IN  /\ pc[c] = "rollback"
        /\ dirty' = Cleared(s)
        /\ newTx' = [newTx EXCEPT ![s] = <<>>]
        /\ lockedBy' = ReleaseLocks(s)
        /\ txState' = [TxStateAfter(s, "detached") EXCEPT ![c] = "none"]
        /\ result' = [result EXCEPT ![c] = err[c]]
        /\ err' = [err EXCEPT ![c] = "none"]
        /\ pc' = [pc EXCEPT ![c] = "idle"]
        /\ req' = [req EXCEPT ![c] = NoReq]
        /\ loc' = [loc EXCEPT ![c] = NoLoc]
        /\ UNCHANGED <<store, shared, reply, calls, ghost, clock, side>>

\* ------------------------------------------------------- specification
Create(c) ==
    \/ \E u \in UUIDs, b \in InitialBalances : CreateStart(c, u, b)
    \/ CreateCheck(c)
    \/ CreateInsert(c)

UpdateBalance(c) ==
    \/ LockWallet(c)
    \/ Calc(c)
    \/ WriteWallet(c)
    \/ AddTransaction(c)
    \/ Commit(c)
    \/ Rollback(c)

Step(c) ==
    \/ Create(c)
    \/ \E u \in UUIDs, t \in OperationTypes, v \in RawAmounts : PerformStart(c, u, t, v)
    \/ UpdateBalance(c)

Next == \E c \in Callers : Step(c)

Spec == Init /\ [][Next]_vars

\* The same program with commits that may fail for infrastructure reasons.
FaultNext == Next \/ \E c \in Callers : CommitFail(c)

FaultSpec == Init /\ [][FaultNext]_vars

TypeOK ==
    /\ \A u \in UUIDs : Exists(u) => wallets[u].version >= 1
    /\ calls \in 0..MaxCalls

\* --------------------------------------------------- get_wallet_balance
\* get_by_uuid_or_404 and the response built from the Wallet object the
\* session returns: a plain SELECT, no lock; for a wallet the session
\* already holds, the object with its pending attribute values.
GetBalance(c, u) ==
    /\ pc[c] = "idle"
    /\ calls < MaxCalls
    /\ calls' = calls + 1
    /\ req' = [req EXCEPT ![c] = [kind |-> "balance", uuid |-> u, call |-> calls']]
    /\ IF ~Exists(u)
       THEN /\ result' = [result EXCEPT ![c] = "NotFound"]
            /\ reply' = [reply EXCEPT ![c] = NoReply]
       ELSE /\ result' = [result EXCEPT ![c] = "ok"]
            /\ reply' = [reply EXCEPT ![c] =
                    [uuid |-> u, balance |-> ReadBalance(SessionOf(c), u),
                     status |-> wallets[u].status]]
    /\ UNCHANGED <<store, lockedBy, dirty, newTx, shared, pc, loc, txState, err, ghost, clock, side>>

\* A request that the HTTP layer serves meanwhile, through a service and
\* session of its own (get_wallet_service), and that update_balance
\* refuses: it holds the wallet's row lock from get_wallet_with_lock to its
\* rollback and writes nothing.
OtherSession == NumCallers + 1

OtherLock(u) ==
    /\ Exists(u)
    /\ lockedBy[u] = NoSession
    /\ lockedBy' = [lockedBy EXCEPT ![u] = OtherSession]
    /\ UNCHANGED <<store, dirty, newTx, shared, reply, pc, req, loc, txState, err, result,
                   calls, ghost, clock, side>>

OtherRollback(u) ==
    /\ lockedBy[u] = OtherSession
    /\ lockedBy' = [lockedBy EXCEPT ![u] = NoSession]
    /\ UNCHANGED <<store, dirty, newTx, shared, reply, pc, req, loc, txState, err, result,
                   calls, ghost, clock, side>>

ServiceNext ==
    \/ \E c \in Callers : Step(c)
    \/ \E c \in Callers, u \in UUIDs : GetBalance(c, u)
    \/ \E u \in UUIDs : OtherLock(u)
    \/ \E u \in UUIDs : OtherRollback(u)

\* The store holds one wallet created with 100.00.
ServiceInit ==
    /\ wallets = [u \in UUIDs |->
                    IF u = "u1"
                    THEN [status |-> "active", balance |-> 10000, version |-> 1]
                    ELSE NoRow]
    /\ initial = [u \in UUIDs |-> IF u = "u1" THEN 10000 ELSE 0]
    /\ InitCallers

ServiceSpec == ServiceInit /\ [][ServiceNext]_vars

\* ------------------------------------------- the generic repository
\* BaseRepository.update and BaseRepository.delete, which WalletRepository
\* and TransactionRepository inherit: get_or_404, the change, commit.  The
\* commit is the session's: it writes whatever else the session holds.
Statuses == {"active", "frozen"}
NewAmounts == {1}

RepoCommit(c, w, l, r) ==
    LET s == SessionOf(c)
    IN  /\ pc[c] = "idle"
        /\ calls < MaxCalls
        /\ calls' = calls + 1
        /\ CanFlush(s)
        /\ wallets' = w
        /\ txlog' = l
        /\ dirty' = Cleared(s)
        /\ newTx' = [newTx EXCEPT ![s] = <<>>]
        /\ lockedBy' = ReleaseLocks(s)
        /\ txState' = TxStateAfter(s, "persistent")
        /\ result' = [result EXCEPT ![c] = r]
        /\ UNCHANGED <<shared, reply, pc, req, loc, err, ghost, clock, side>>

RepoNotFound(c) ==
    /\ pc[c] = "idle"
    /\ calls < MaxCalls
    /\ calls' = calls + 1
    /\ result' = [result EXCEPT ![c] = "NotFound"]
    /\ UNCHANGED <<store, lockedBy, dirty, newTx, shared, reply, pc, req, loc, txState, err, ghost, clock, side>>

Remove(log, i) == SubSeq(log, 1, i - 1) \o SubSeq(log, i + 1, Len(log))

\* WalletRepository.update(id, status=st)
UpdateWallet(c, u, st) ==
    IF ~Exists(u) THEN RepoNotFound(c)
    ELSE /\ LockFree(SessionOf(c), u)
         /\ RepoCommit(c, [CommitWallets(SessionOf(c)) EXCEPT ![u].status = st],
                       CommitLog(SessionOf(c)), "ok")

\* WalletRepository.delete(id): the wallet row and, by the cascade of
\* Wallet.transactions, its Transaction rows.
DeleteWallet(c, u) ==
    IF ~Exists(u) THEN RepoNotFound(c)
    ELSE /\ LockFree(SessionOf(c), u)
         /\ RepoCommit(c, [CommitWallets(SessionOf(c)) EXCEPT ![u] = NoRow],
                       [CommitLog(SessionOf(c)) EXCEPT ![u] = <<>>], "ok")

\* TransactionRepository.update(id, amount=a) on the i-th record of wallet u
UpdateTransaction(c, u, i, a) ==
    IF i > Len(txlog[u]) THEN RepoNotFound(c)
    ELSE RepoCommit(c, CommitWallets(SessionOf(c)),
                    [CommitLog(SessionOf(c)) EXCEPT ![u][i].amount = a], "ok")

\* TransactionRepository.delete(id) on the i-th record of wallet u
DeleteTransaction(c, u, i) ==
    IF i > Len(txlog[u]) THEN RepoNotFound(c)
    ELSE RepoCommit(c, CommitWallets(SessionOf(c)),
                    [u2 \in UUIDs |->
                        IF u2 = u THEN Remove(txlog[u], i) \o OfWallet(newTx[SessionOf(c)], u)
                        ELSE CommitLog(SessionOf(c))[u2]], "ok")

Repository(c) ==
    \/ \E u \in UUIDs, st \in Statuses : UpdateWallet(c, u, st)
    \/ \E u \in UUIDs : DeleteWallet(c, u)
    \/ \E u \in UUIDs, i \in 1..MaxCalls, a \in NewAmounts : UpdateTransaction(c, u, i, a)
    \/ \E u \in UUIDs, i \in 1..MaxCalls : DeleteTransaction(c, u, i)

\* Calls are made one at a time: a caller takes a step only while every
\* other caller is between calls.
Alone(c) == \A d \in Callers \ {c} : pc[d] = "idle"

RepoNext == \E c \in Callers : Alone(c) /\ (Step(c) \/ Repository(c))

RepoSpec == Init /\ [][RepoNext]_vars

\* ------------------------------------------------- sequential callers
\* The service with calls made one at a time.
\* 100.01: one cent more than the balance a wallet is created with.
SeqAmounts == RawAmounts \cup {100010}

SeqStep(c) ==
    \/ Create(c)
    \/ \E u \in MalformedIds, b \in InitialBalances : CreateStart(c, u, b)
    \/ \E u \in UUIDs, t \in OperationTypes \cup OtherTypes, v \in SeqAmounts :
            PerformStart(c, u, t, v)
    \/ UpdateBalance(c)

SeqNext == \E c \in Callers : Alone(c) /\ SeqStep(c)

\* ------------------------------------------------ the withdrawal race
\* test_concurrent_insufficient_funds: a wallet holding 100.00 and threads
\* that each withdraw 50.00 from it, MaxCalls withdrawals in all.
RaceBalance == 10000
RaceAmountMills == 50000
RaceWallet == "u1"

RaceInit ==
    /\ wallets = [u \in UUIDs |->
                    IF u = RaceWallet
                    THEN [status |-> "active", balance |-> RaceBalance, version |-> 1]
                    ELSE NoRow]
    /\ initial = [u \in UUIDs |-> IF u = RaceWallet THEN RaceBalance ELSE 0]
    /\ InitCallers

RaceStep(c) ==
    \/ PerformStart(c, RaceWallet, "WITHDRAW", RaceAmountMills)
    \/ UpdateBalance(c)

RaceNext == \E c \in Callers : RaceStep(c)

RaceSpec == RaceInit /\ [][RaceNext]_vars

SeqSpec == Init /\ [][SeqNext]_vars

AllReturned == \A c \in Callers : pc[c] = "idle"

\* ---------------------------------------------------------------- C1
\* Between a caller's locked read of a wallet and its commit or rollback the
\* caller is inside update_balance's critical section for that wallet.
InCritical(c) ==
    \/ pc[c] \in {"calc", "write", "add", "commit"}
    \/ (pc[c] = "rollback" /\ err[c] # "NotFound")

\* C1: between one caller's locked read of a wallet and that caller's commit
\* or rollback, no other caller has read the same wallet for mutation: two
\* callers are never inside the critical section of one wallet together.
C1_MutualExclusion ==
    \A c \in Callers, d \in Callers :
        (c # d /\ InCritical(c) /\ InCritical(d)) => req[c].uuid # req[d].uuid

\* ---------------------------------------------------------------- C2
\* C2: once all concurrent perform_operation calls have returned, every
\* wallet's balance is its initial balance plus the signed amounts of exactly
\* the calls that returned successfully, and it has exactly one Transaction
\* record per successful call.
C2_Serializable ==
    AllReturned =>
        \A u \in UUIDs :
            Exists(u) =>
                /\ wallets[u].balance = initial[u] + okSum[u]
                /\ Len(txlog[u]) = okCnt[u]

RECURSIVE Replay(_, _)
Replay(log, balance) ==
    IF log = <<>>
    THEN balance
    ELSE Replay(Tail(log), balance + Signed(Head(log).type, Head(log).amount))

\* C4: replaying a wallet's Transaction records in commit order from its
\* initial balance yields exactly its current balance.
C4_ReplayLaw ==
    \A u \in UUIDs : Exists(u) => Replay(txlog[u], initial[u]) = wallets[u].balance

\* ---------------------------------------------------------------- C5
\* C5: each Transaction's balance_before equals the balance_after of the one
\* committed just before it for the same wallet, and the first one's
\* balance_before is the wallet's initial balance.
C5_Chained ==
    \A u \in UUIDs :
        \A i \in 1..Len(txlog[u]) :
            txlog[u][i].before = IF i = 1 THEN initial[u] ELSE txlog[u][i - 1].after

\* ---------------------------------------------------------------- C6
Failing(c) ==
    \/ (pc[c] # "rollback" /\ pc'[c] = "rollback")
    \/ (pc[c] = "rollback" /\ pc'[c] # "rollback")

\* C6: the step that completes a successful perform_operation changes
\* exactly one wallet row (balance and version) and appends exactly one
\* Transaction, its own, in the same step; every other step of a call, and
\* every step of a call that fails, leaves both tables as they were.
C6_Atomic ==
    [][\A c \in Callers :
        LET u == req[c].uuid
        IN  /\ (pc[c] = "commit" /\ pc'[c] = "idle") =>
                /\ wallets' = [wallets EXCEPT ![u] =
                       [@ EXCEPT !.balance = loc[c].after, !.version = @ + 1]]
                /\ txlog' = [txlog EXCEPT ![u] = Append(@, NewTransaction(c))]
            /\ Failing(c) => store' = store
            /\ (pc[c] \in {"lock", "calc", "write", "add"} /\ pc'[c] # pc[c]) =>
                store' = store
      ]_vars

\* ---------------------------------------------------------------- C7
RaceAmount == validate_amount(RaceAmountMills)

\* C7: when calls withdrawals of RaceAmount on a wallet holding RaceBalance
\* have all returned and calls * RaceAmount > RaceBalance, exactly
\* RaceBalance div RaceAmount of them succeeded and the balance is what
\* those left.
C7_ExactlyFloor ==
    (AllReturned /\ calls * RaceAmount > RaceBalance) =>
        /\ okCnt[RaceWallet] = RaceBalance \div RaceAmount
        /\ wallets[RaceWallet].balance =
               RaceBalance - RaceAmount * (RaceBalance \div RaceAmount)

\* ---------------------------------------------------------------- C8
\* C8: a WITHDRAW of more than the current balance is refused with
\* InsufficientFunds and the refused call leaves balance, version and the
\* log unchanged; any other WITHDRAW is not refused, and one of exactly the
\* current balance succeeds and leaves balance 0.
C8_Boundary ==
    [][\A c \in Callers :
        LET u == req[c].uuid
        IN  /\ (pc[c] = "calc" /\ pc'[c] # "calc" /\ req[c].type = "WITHDRAW") =>
                IF req[c].amount > wallets[u].balance
                THEN pc'[c] = "rollback" /\ err'[c] = "InsufficientFunds" /\ store' = store
                ELSE pc'[c] = "write"
            /\ (pc[c] = "rollback" /\ err[c] = "InsufficientFunds" /\ pc'[c] # "rollback") =>
                result'[c] = "InsufficientFunds" /\ store' = store
            /\ (pc[c] = "commit" /\ pc'[c] # "commit" /\ req[c].type = "WITHDRAW"
                    /\ req[c].amount = wallets[u].balance) =>
                result'[c] = "ok" /\ wallets'[u].balance = 0
      ]_vars

\* A withdrawal of the whole balance has emptied the wallet, and the last
\* call, a withdrawal of more than is left, has been refused.
C8_Witness ==
    \E c \in Callers, u \in UUIDs :
        /\ result[c] = "InsufficientFunds"
        /\ Exists(u)
        /\ wallets[u].balance = 0
        /\ Len(txlog[u]) = 1
        /\ txlog[u][1].type = "WITHDRAW"
        /\ txlog[u][1].amount = initial[u]

\* ---------------------------------------------------------------- C9
\* C9: a DEPOSIT on an existing wallet is never rejected: the only error a
\* DEPOSIT call can end with is NotFound.
C9_DepositNeverRejected ==
    [][\A c \in Callers :
        (pc[c] # "rollback" /\ pc'[c] = "rollback" /\ req[c].type = "DEPOSIT") =>
            err'[c] = "NotFound"
      ]_vars

CreateFails(c) ==
    /\ pc[c] \in {"cr_check", "cr_insert"}
    /\ pc'[c] = "idle"
    /\ Exists(req[c].uuid)

\* C11: a create_wallet on an identifier already in use fails with Conflict
\* and leaves every wallet and Transaction as it was.
C11_DuplicateConflict ==
    [][\A c \in Callers :
        CreateFails(c) => (result'[c] = "Conflict" /\ store' = store)
      ]_vars

\* --------------------------------------------------------------- C13
\* C13: in every committed state a wallet's version is 1 plus the number of
\* its Transaction records, and its k-th Transaction is the step from
\* version k to k + 1, i.e. the log is as long as the version steps taken.
C13_VersionCountsLog ==
    \A u \in UUIDs : Exists(u) => wallets[u].version = 1 + Len(txlog[u])

\* --------------------------------------------------------------- C12
\* A step in which a create_wallet call is refused: by the service's format
\* check on entry, or by the repository's ValueError.
CreateRefused(c) ==
    \/ /\ pc[c] = "idle" /\ pc'[c] = "idle"
       /\ req'[c] # req[c]
       /\ req'[c].kind = "create"
    \/ /\ pc[c] = "cr_check" /\ pc'[c] # "cr_check"
       /\ (~validate_wallet_uuid(req[c].uuid) \/ Exists(req[c].uuid))

C15_FailFast ==
    [][\A c \in Callers :
        /\ (pc[c] = "idle" /\ req'[c] # req[c] /\ req'[c].kind = "op"
                /\ req'[c].type \notin OperationTypes) =>
              /\ result'[c] = "ValidationError"
              /\ pc'[c] = "idle"
              /\ UNCHANGED <<store, lockedBy, dirty, newTx>>
        /\ (pc'[c] # "idle" /\ req'[c].kind = "op") => req'[c].type \in OperationTypes
      ]_vars

\* An operation of an unknown type on an existing wallet has been refused.
C15_Witness ==
    \E c \in Callers :
        /\ result[c] = "ValidationError"
        /\ pc[c] = "idle"
        /\ req[c].kind = "op"
        /\ req[c].type \in OtherTypes
        /\ Exists(req[c].uuid)
        /\ Len(txlog[req[c].uuid]) > 0

\* --------------------------------------------------------------- C18
\* C18: the step in which a perform_operation's commit fails persists
\* nothing and goes to the rollback, the call then ends with the error and
\* its rollback persists nothing; when the commit fails the wallet still
\* holds the balance the call read, which is the initial balance plus the
\* amounts of the calls that succeeded, with one Transaction per success, so
\* a retry applies the amount exactly once.
C18_FailedCommitLeavesNothing ==
    [][\A c \in Callers :
        LET u == req[c].uuid
        IN  /\ (pc[c] = "commit" /\ pc'[c] = "rollback" /\ err'[c] = "StoreError") =>
                /\ store' = store
                /\ wallets'[u].balance = loc[c].before
                /\ wallets'[u].balance = initial[u] + okSum[u]
                /\ Len(txlog'[u]) = okCnt[u]
            /\ (pc[c] = "rollback" /\ err[c] = "StoreError" /\ pc'[c] # "rollback") =>
                /\ result'[c] = "StoreError"
                /\ pc'[c] = "idle"
                /\ store' = store
      ]_vars

\* --------------------------------------------------------------- C14
\* C14: a perform_operation that finds the wallet's status other than
\* active fails with InvalidState, and the call's remaining step releases
\* the row lock and leaves balance, version and log unchanged.
C14_InvalidState ==
    [][\A c \in Callers :
        LET u == req[c].uuid
        IN  /\ (pc[c] = "calc" /\ pc'[c] # "calc" /\ wallets[u].status # "active") =>
                /\ pc'[c] = "rollback"
                /\ err'[c] = "InvalidState"
                /\ store' = store
            /\ (pc[c] = "rollback" /\ err[c] = "InvalidState" /\ pc'[c] # "rollback") =>
                /\ result'[c] = "InvalidState"
                /\ lockedBy'[u] # SessionOf(c)
                /\ store' = store
      ]_vars

\* --------------------------------------------------------------- C20
\* C20: the transaction log is append-only: every step leaves each committed
\* Transaction record of each wallet in place and unchanged.
C20_AppendOnly ==
    [][\A u \in UUIDs :
        /\ Len(txlog'[u]) >= Len(txlog[u])
        /\ \A i \in 1..Len(txlog[u]) : txlog'[u][i] = txlog[u][i]
      ]_vars

\* --------------------------------------------------------------- C16
\* C16: a call is never delayed by a lock on a wallet other than the one it
\* operates on: a create_wallet in progress can always take its next step,
\* get_wallet_balance can always be served, and a perform_operation whose
\* own wallet's row lock is free (or its session's) can always take its next
\* step, whatever locks are held on other wallets.
C16_NeverDelayed ==
    \A c \in Callers :
        /\ pc[c] \in {"cr_check", "cr_insert"} => ENABLED Create(c)
        /\ (pc[c] = "idle" /\ calls < MaxCalls) =>
                \A u \in UUIDs : ENABLED GetBalance(c, u)
        /\ (pc[c] \in {"lock", "calc", "write", "add", "commit", "rollback"}
                /\ LockFree(SessionOf(c), req[c].uuid)) => ENABLED UpdateBalance(c)

\* --------------------------------------------------------------- C17
\* C17: get_wallet_balance changes no row, no lock and no pending state; for
\* an unknown wallet it fails with NotFound, otherwise it returns the
\* committed balance and status of the wallet, so that two calls with no
\* commit between them return identical values.
C17_PureRead ==
    [][\A c \in Callers :
        (pc[c] = "idle" /\ req'[c] # req[c] /\ req'[c].kind = "balance") =>
            LET u == req'[c].uuid
            IN  /\ UNCHANGED <<store, lockedBy, dirty, newTx>>
                /\ IF ~Exists(u)
                   THEN result'[c] = "NotFound"
                   ELSE /\ result'[c] = "ok"
                        /\ reply'[c].uuid = u
                        /\ reply'[c].balance = wallets[u].balance
                        /\ reply'[c].status = wallets[u].status
      ]_vars

\* --------------------------------------------------------------- C19
\* C19: a perform_operation waiting for the wallet lock does not depend on
\* the holder to end its wait: at the lock step the call always has a step
\* it can take (acquire the lock, or fail with NotFound or Timeout).
C19_LockWaitEnds ==
    \A c \in Callers : pc[c] = "lock" => ENABLED UpdateBalance(c)

\* ------------------------------------------------ the transaction list
\* get_wallet_transactions(wallet_uuid, skip = 0, limit = 100)
DefaultSkip == 0
DefaultLimit == 100

\* The first statement a session sends opens its database transaction
\* (BEGIN, then the statement itself); now() is the time of that BEGIN for
\* every statement of the transaction.
BeginTransaction(c) ==
    /\ pc[c] = "lock"
    /\ loc[c].began = 0
    /\ clock' = clock + 1
    /\ loc' = [loc EXCEPT ![c].began = clock']
    /\ UNCHANGED <<store, lockedBy, dirty, newTx, shared, pc, req, txState, err, result,
                   reply, calls, ghost, side>>

Begun(c) == loc[c].began # 0

\* The rows T of log in every order.
RECURSIVE Perms(_, _)
Perms(log, T) ==
    IF T = {} THEN {<<>>}
    ELSE UNION {{<<log[i]>> \o p : p \in Perms(log, T \ {i})} : i \in T}

\* A row of S with as many rows of S created before it as after it.
Middle(log, S) ==
    CHOOSE i \in S :
        /\ 2 * Cardinality({j \in S : log[j].created < log[i].created}) <= Cardinality(S)
        /\ 2 * Cardinality({j \in S : log[j].created > log[i].created}) <= Cardinality(S)

\* ORDER BY created_at DESC over the rows S of log: every order in which no
\* row comes before a row created later; rows created at the same time come
\* in any order.
RECURSIVE Orders(_, _)
Orders(log, S) ==
    IF S = {} THEN {<<>>}
    ELSE LET m == log[Middle(log, S)].created
         IN  {a \o b \o c :
                a \in Orders(log, {i \in S : log[i].created > m}),
                b \in Perms(log, {i \in S : log[i].created = m}),
                c \in Orders(log, {i \in S : log[i].created < m})}

\* OFFSET skip LIMIT limit
Page(p, skip, limit) ==
    SubSeq(p, skip + 1, IF Len(p) < skip + limit THEN Len(p) ELSE skip + limit)

\* WalletService.get_wallet_transactions with the default page.
GetTransactions(c, u) ==
    /\ pc[c] = "idle"
    /\ calls < MaxCalls
    /\ calls' = calls + 1
    /\ req' = [req EXCEPT ![c] = [kind |-> "transactions", uuid |-> u, call |-> calls']]
    /\ IF ~Exists(u)
       THEN /\ result' = [result EXCEPT ![c] = "NotFound"]
            /\ reply' = [reply EXCEPT ![c] = NoReply]
       ELSE \E p \in Orders(txlog[u], DOMAIN txlog[u]) :
                /\ result' = [result EXCEPT ![c] = "ok"]
                /\ reply' = [reply EXCEPT ![c] =
                        [uuid |-> u, items |-> Page(p, DefaultSkip, DefaultLimit)]]
    /\ UNCHANGED <<store, lockedBy, dirty, newTx, shared, pc, loc, txState, err, ghost, clock, side>>

\* The service behind the HTTP layer: every request has a session of its
\* own; the store holds one wallet created with 100.00, and the requests
\* deposit or withdraw 50.00.
LedgerInit == ServiceInit /\ shared = {}

LedgerStep(c) ==
    \/ \E u \in UUIDs, t \in OperationTypes : PerformStart(c, u, t, RaceAmountMills)
    \/ BeginTransaction(c)
    \/ (Begun(c) /\ LockWallet(c))
    \/ Calc(c)
    \/ WriteWallet(c)
    \/ AddTransaction(c)
    \/ Commit(c)
    \/ Rollback(c)
    \/ \E u \in UUIDs : GetTransactions(c, u)

LedgerNext == \E c \in Callers : LedgerStep(c)

LedgerSpec == LedgerInit /\ [][LedgerNext]_vars

\* --------------------------------------------------------------- C21
\* The place of a committed record in its wallet's commit order.
CommitIndex(u, t) == CHOOSE i \in DOMAIN txlog[u] : txlog[u][i] = t

\* C21: get_wallet_transactions lists a wallet's records newest first, in
\* reverse commit order: of any two records it returns, the one committed
\* later comes first; and for an unknown wallet it fails with NotFound.
C21_NewestFirst ==
    \A c \in Callers :
        req[c].kind = "transactions" =>
            IF result[c] = "ok"
            THEN \A i \in DOMAIN reply[c].items, j \in DOMAIN reply[c].items :
                    i < j => CommitIndex(reply[c].uuid, reply[c].items[i])
                                > CommitIndex(reply[c].uuid, reply[c].items[j])
            ELSE result[c] = "NotFound" /\ ~Exists(req[c].uuid)

\* --------------------------------------------------------------- C22
\* C22: once a wallet is created and N perform_operation calls on it have
\* succeeded, its transaction list holds N + 1 records: one for the creation
\* and one per operation.
C22_CreationRecorded ==
    \A u \in UUIDs :
        (AllReturned /\ Exists(u)) => Len(txlog[u]) = okCnt[u] + 1

\* ------------------------------------- update_balance called directly
\* WalletRepository.update_balance called by a client of the repository, as
\* test_concurrent_insufficient_funds does to set the balance of its wallet
\* (created with 1000.00) to 100.00: amount = initial_balance - 1000.0, as a
\* WITHDRAW.  The repository takes the amount and the type as they come.
FixtureBalance == 100000
ResetAmount == RaceBalance - FixtureBalance

DirectAmounts == {ResetAmount, RoundCents(RaceAmountMills)}

DirectUpdateBalance(c, u, t, a) ==
    /\ pc[c] = "idle"
    /\ calls < MaxCalls
    /\ calls' = calls + 1
    /\ result' = [result EXCEPT ![c] = "none"]
    /\ req' = [req EXCEPT ![c] = [kind |-> "op", uuid |-> u, type |-> t, amount |-> a]]
    /\ pc' = [pc EXCEPT ![c] = "lock"]
    /\ UNCHANGED <<store, lockedBy, dirty, newTx, shared, reply, loc, txState, err, ghost, clock, side>>

DirectStep(c) ==
    \/ Create(c)
    \/ \E u \in UUIDs, t \in OperationTypes, v \in RawAmounts : PerformStart(c, u, t, v)
    \/ \E u \in UUIDs, t \in OperationTypes \cup OtherTypes, a \in DirectAmounts :
            DirectUpdateBalance(c, u, t, a)
    \/ UpdateBalance(c)

DirectNext == \E c \in Callers : Alone(c) /\ DirectStep(c)

DirectSpec == Init /\ [][DirectNext]_vars

\* --------------------------------------------------------------- C23
\* C23: every committed Transaction record is well formed: its type is
\* DEPOSIT or WITHDRAW, its amount is positive, balance_after is
\* balance_before plus the amount for a DEPOSIT and minus the amount for a
\* WITHDRAW, so no committed WITHDRAW has balance_after > balance_before;
\* whoever called update_balance.
C23_WellFormed ==
    \A u \in UUIDs : \A i \in DOMAIN txlog[u] :
        LET t == txlog[u][i]
        IN  /\ t.type \in OperationTypes
            /\ t.amount > 0
            /\ t.after = BalanceAfter(t.type, t.before, t.amount)
            /\ (t.type = "WITHDRAW" => t.after <= t.before)

\* --------------------------------------------------------------- C24
\* A create_wallet call of caller c returns the wallet it created.
Created(c) == pc[c] = "cr_insert" /\ pc'[c] = "idle" /\ result'[c] = "ok"

\* C24: a successful create_wallet stores exactly one new wallet, under the
\* identifier it was called with, with version 1, status active and the
\* requested initial balance; no existing wallet and no transaction changes.
C24_CreateStoresOne ==
    [][\A c \in Callers :
            Created(c) =>
                /\ ~Exists(req[c].uuid)
                /\ wallets'[req[c].uuid] =
                        [status |-> "active", balance |-> req[c].amount, version |-> 1]
                /\ \A u \in UUIDs \ {req[c].uuid} : wallets'[u] = wallets[u]
                /\ txlog' = txlog]_vars

\* --------------------------------------------------------------- C25
\* WalletOperationResponse: the type and the amount of the request, and
\* balance_before / balance_after of the Transaction object the call added,
\* as refresh(transaction) reloads them from its row.
OperationResponse(c) ==
    [uuid |-> req[c].uuid, type |-> req[c].type, amount |-> req[c].amount,
     before |-> NewTransaction(c).before, after |-> NewTransaction(c).after]

\* A perform_operation call of caller c returns its response.
Performed(c) == pc[c] = "commit" /\ pc'[c] = "idle" /\ result'[c] = "ok"

\* The records of wallet u that the step's commit inserted.
Inserted(u) == {txlog'[u][i] : i \in (Len(txlog[u]) + 1)..Len(txlog'[u])}

\* C25: the response of a successful perform_operation describes exactly
\* the Transaction the call committed: type and amount are the request's,
\* balance_before and balance_after are those of the record this call's
\* commit inserted, and balance_after is the wallet balance this call
\* committed.
C25_ResponseIsCommitted ==
    [][\A c \in Callers :
            Performed(c) =>
                /\ \E t \in Inserted(req[c].uuid) :
                        /\ t.type = OperationResponse(c).type
                        /\ t.amount = OperationResponse(c).amount
                        /\ t.before = OperationResponse(c).before
                        /\ t.after = OperationResponse(c).after
                /\ wallets'[req[c].uuid].balance = OperationResponse(c).after]_vars

\* ------------------------------------------------- amounts at the edge
\* Requests with amounts around zero, in mills: -0.010, 0.000, 0.004,
\* 0.006, and 50.000.
EdgeAmounts == {0 - 10, 0, 4, 6, RaceAmountMills}

AmountStep(c) ==
    \/ Create(c)
    \/ \E u \in UUIDs, t \in OperationTypes, v \in EdgeAmounts : PerformStart(c, u, t, v)
    \/ UpdateBalance(c)

AmountNext == \E c \in Callers : Alone(c) /\ AmountStep(c)

AmountSpec == Init /\ [][AmountNext]_vars

\* --------------------------------------------------------------- C26
\* A request that WalletOperationRequest has accepted: the call is on its
\* way into update_balance with the validator's rounded amount, in cents.
Accepted(c) == req[c].kind = "op" /\ pc[c] = "lock"

\* C26: every amount WalletOperationRequest accepts is, after the
\* validator's rounding to cents, strictly positive and at most
\* 999999999.99: a request whose amount is <= 0 or rounds to 0.00 is
\* rejected.
C26_AcceptedAmountPositive ==
    \A c \in Callers :
        Accepted(c) => (req[c].amount > 0 /\ ~TooLarge(req[c].amount * 10))

\* ---------------------------------------------- CRUD.perform_operation
\* The first variant of the operation (CRUD.py): the wallet is read with
\* with_for_update(), its balance is changed and committed; no Transaction
\* is written and no exception is caught.  The amount is a Decimal that the
\* schema WalletOperation does not validate.
CrudOutcome(b, t, a) ==
    IF t = "DEPOSIT" THEN "ok"
    ELSE IF t = "WITHDRAW" THEN (IF b < a THEN "ValueError" ELSE "ok")
    ELSE "ValueError"

CrudBalance(b, t, a) ==
    IF CrudOutcome(b, t, a) # "ok" THEN b
    ELSE IF t = "DEPOSIT" THEN b + a ELSE b - a

CrudAmounts == {RoundCents(v) : v \in SeqAmounts}

CrudStart(c, u, t, a) ==
    /\ pc[c] = "idle"
    /\ calls < MaxCalls
    /\ calls' = calls + 1
    /\ result' = [result EXCEPT ![c] = "none"]
    /\ req' = [req EXCEPT ![c] = [kind |-> "crud", uuid |-> u, type |-> t, amount |-> a]]
    /\ pc' = [pc EXCEPT ![c] = "crud_lock"]
    /\ UNCHANGED <<store, lockedBy, dirty, newTx, shared, reply, loc, txState, err, ghost, clock, side>>

\* select(Wallet).where(...).with_for_update(); raise NoResultFound
CrudLock(c) ==
    LET s == SessionOf(c)
        u == req[c].uuid
    IN  /\ pc[c] = "crud_lock"
        /\ IF ~Exists(u)
           THEN /\ result' = [result EXCEPT ![c] = "NoResultFound"]
                /\ pc' = [pc EXCEPT ![c] = "crud_close"]
                /\ UNCHANGED lockedBy
           ELSE /\ LockFree(s, u)
                /\ lockedBy' = [lockedBy EXCEPT ![u] = s]
                /\ pc' = [pc EXCEPT ![c] = "crud_calc"]
                /\ UNCHANGED result
        /\ UNCHANGED <<store, dirty, newTx, shared, reply, req, loc, txState, err, calls, ghost, clock, side>>

\* wallet.balance += amount / -= amount; raise ValueError leaves the
\* function with the session's transaction open.
CrudCalc(c) ==
    LET s == SessionOf(c)
        u == req[c].uuid
        b == ReadBalance(s, u)
    IN  /\ pc[c] = "crud_calc"
        /\ IF CrudOutcome(b, req[c].type, req[c].amount) # "ok"
           THEN /\ result' = [result EXCEPT ![c] = CrudOutcome(b, req[c].type, req[c].amount)]
                /\ pc' = [pc EXCEPT ![c] = "crud_close"]
                /\ UNCHANGED dirty
           ELSE /\ dirty' = [dirty EXCEPT ![s][u] =
                        [dirty |-> TRUE, balance |-> CrudBalance(b, req[c].type, req[c].amount),
                         version |-> ReadVersion(s, u)]]
                /\ pc' = [pc EXCEPT ![c] = "crud_commit"]
                /\ UNCHANGED result
        /\ UNCHANGED <<store, lockedBy, newTx, shared, reply, req, loc, txState, err, calls, ghost, clock, side>>

\* db.add(wallet); db.commit(); db.refresh(wallet); return wallet
CrudCommit(c) ==
    LET s == SessionOf(c)
    IN  /\ pc[c] = "crud_commit"
        /\ CanFlush(s)
        /\ wallets' = CommitWallets(s)
        /\ txlog' = CommitLog(s)
        /\ dirty' = Cleared(s)
        /\ newTx' = [newTx EXCEPT ![s] = <<>>]
        /\ lockedBy' = ReleaseLocks(s)
        /\ txState' = TxStateAfter(s, "persistent")
        /\ result' = [result EXCEPT ![c] = "ok"]
        /\ pc' = [pc EXCEPT ![c] = "crud_close"]
        /\ UNCHANGED <<shared, reply, req, loc, err, calls, ghost, clock, side>>

\* Main.get_db: finally db.close(), once the request is over: the session's
\* open transaction is rolled back.
CloseSession(c) ==
    LET s == SessionOf(c)
    IN  /\ pc[c] = "crud_close"
        /\ dirty' = Cleared(s)
        /\ newTx' = [newTx EXCEPT ![s] = <<>>]
        /\ lockedBy' = ReleaseLocks(s)
        /\ txState' = TxStateAfter(s, "detached")
        /\ pc' = [pc EXCEPT ![c] = "idle"]
        /\ req' = [req EXCEPT ![c] = NoReq]
        /\ UNCHANGED <<store, shared, reply, loc, err, result, calls, ghost, clock, side>>

CrudRun(c) ==
    \/ CrudLock(c)
    \/ CrudCalc(c)
    \/ CrudCommit(c)
    \/ CloseSession(c)

\* Both variants serving requests, each request on a session of its own,
\* against a store that holds one wallet created with 100.00.
CrudStep(c) ==
    \/ \E u \in UUIDs, t \in OperationTypes, v \in SeqAmounts : PerformStart(c, u, t, v)
    \/ UpdateBalance(c)
    \/ \E u \in UUIDs, t \in OperationTypes, a \in CrudAmounts : CrudStart(c, u, t, a)
    \/ CrudRun(c)

CrudNext == \E c \in Callers : CrudStep(c)

\* A call that is under way takes its next step when it can, and a call
\* that waits for a row lock gets it when it is free often enough (the
\* database queues the waiters).
CrudFair ==
    \A c \in Callers :
        /\ WF_vars(UpdateBalance(c) \/ CrudRun(c))
        /\ SF_vars(LockWallet(c) \/ CrudLock(c))

CrudSpec == LedgerInit /\ [][CrudNext]_vars /\ CrudFair

\* --------------------------------------------------------------- C27
\* The step by which a perform_operation call of caller c returns, with its
\* result or with an exception.
Returns(c) ==
    \/ pc[c] \in {"commit", "rollback"} /\ pc'[c] = "idle"
    \/ pc[c] \in {"crud_lock", "crud_calc", "crud_commit"} /\ pc'[c] = "crud_close"

Waiting(c) == pc[c] \in {"lock", "crud_lock"}

\* C27: every path out of the operation ends in commit or rollback: when a
\* perform_operation call returns, with its result or with any error, its
\* caller holds no wallet lock; no set of concurrent calls deadlocks; and
\* every caller that waits for a lock eventually gets past the wait.
C27_LocksReleased ==
    /\ [][\A c \in Callers :
            Returns(c) => \A u \in UUIDs : lockedBy'[u] # SessionOf(c)]_vars
    /\ [](\A c \in Callers :
            pc[c] # "idle" => \E d \in Callers : ENABLED (UpdateBalance(d) \/ CrudRun(d)))
    /\ \A c \in Callers : Waiting(c) ~> ~Waiting(c)

\* --------------------------------------------------------------- C28
\* The error of a duplicate creation when the calls are made one after the
\* other: the repository's ValueError, as the service passes it on.
SequentialDuplicateError == ServiceError("ValueError")

\* C28: of two create_wallet calls with the same identifier, also when both
\* have passed the existence check before either inserts, the one that
\* does not create the wallet fails with the error of a sequential
\* duplicate creation and leaves the store as it was.  (That a uuid has at
\* most one wallet is the unique index on Wallet.uuid.)
C28_DuplicateSameError ==
    [][\A c \in Callers :
            CreateFails(c) =>
                (result'[c] = SequentialDuplicateError /\ store' = store)]_vars

\* ------------------------------------------------ get_wallet_statistics
\* sum(float(t.amount) for t in transactions if t.operation_type == type)
RECURSIVE SumOf(_, _)
SumOf(items, type) ==
    IF Len(items) = 0 THEN 0
    ELSE IF Len(items) = 1
    THEN (IF items[1].type = type THEN items[1].amount ELSE 0)
    ELSE SumOf(SubSeq(items, 1, Len(items) \div 2), type)
            + SumOf(SubSeq(items, Len(items) \div 2 + 1, Len(items)), type)

\* get_by_uuid_or_404, then get_wallet_transactions(wallet_uuid) with its
\* default skip and limit, and the sums over the records it returned.
GetStatistics(c, u) ==
    /\ pc[c] = "idle"
    /\ calls < MaxCalls
    /\ calls' = calls + 1
    /\ req' = [req EXCEPT ![c] = [kind |-> "statistics", uuid |-> u, call |-> calls']]
    /\ IF ~Exists(u)
       THEN /\ result' = [result EXCEPT ![c] = "NotFound"]
            /\ reply' = [reply EXCEPT ![c] = NoReply]
       ELSE \E p \in Orders(txlog[u], DOMAIN txlog[u]) :
                LET transactions == Page(p, DefaultSkip, DefaultLimit)
                IN  /\ result' = [result EXCEPT ![c] = "ok"]
                    /\ reply' = [reply EXCEPT ![c] =
                            [uuid |-> u,
                             current_balance |-> ReadBalance(SessionOf(c), u),
                             total_deposits |-> SumOf(transactions, "DEPOSIT"),
                             total_withdrawals |-> SumOf(transactions, "WITHDRAW"),
                             transaction_count |-> Len(transactions)]]
    /\ UNCHANGED <<store, lockedBy, dirty, newTx, shared, pc, loc, txState, err, ghost, clock, side>>

\* A wallet created with 100.00 that has since received n deposits of 0.01,
\* one after the other.
History(n) ==
    [i \in 1..n |->
        [wallet |-> RaceWallet, type |-> "DEPOSIT", amount |-> 1,
         before |-> RaceBalance + i - 1, after |-> RaceBalance + i, created |-> i]]

HistoryLengths == {0, DefaultLimit - 1}

StatsInit ==
    \E n \in HistoryLengths :
        /\ wallets = [u \in UUIDs |->
                        IF u = RaceWallet
                        THEN [status |-> "active", balance |-> RaceBalance + n,
                              version |-> 1 + n]
                        ELSE NoRow]
        /\ txlog = [u \in UUIDs |-> IF u = RaceWallet THEN History(n) ELSE <<>>]
        /\ initial = [u \in UUIDs |-> IF u = RaceWallet THEN RaceBalance ELSE 0]
        /\ okSum = [u \in UUIDs |-> IF u = RaceWallet THEN n ELSE 0]
        /\ okCnt = [u \in UUIDs |-> IF u = RaceWallet THEN n ELSE 0]
        /\ clock = n
        /\ InitSessions
        /\ side = NoSide
        /\ shared = {}

\* Requests made one at a time, each on a session of its own.
StatsStep(c) ==
    \/ \E u \in UUIDs, t \in OperationTypes : PerformStart(c, u, t, RaceAmountMills)
    \/ BeginTransaction(c)
    \/ (Begun(c) /\ LockWallet(c))
    \/ Calc(c)
    \/ WriteWallet(c)
    \/ AddTransaction(c)
    \/ Commit(c)
    \/ Rollback(c)
    \/ \E u \in UUIDs : GetStatistics(c, u)

StatsNext == \E c \in Callers : Alone(c) /\ StatsStep(c)

StatsSpec == StatsInit /\ [][StatsNext]_vars

\* --------------------------------------------------------------- C29
\* A get_wallet_statistics call of caller c returns its figures.
Reported(c) == req'[c] # req[c] /\ req'[c].kind = "statistics" /\ result'[c] = "ok"

\* C29: the figures of get_wallet_statistics agree with the ledger however
\* many transactions the wallet has: transaction_count is the number of the
\* wallet's committed records, total_deposits and total_withdrawals are the
\* sums over all of them, and current_balance is the initial balance plus
\* total_deposits minus total_withdrawals.
C29_StatisticsMatchLedger ==
    [][\A c \in Callers :
            Reported(c) =>
                LET u == req'[c].uuid
                IN  /\ reply'[c].transaction_count = Len(txlog[u])
                    /\ reply'[c].total_deposits = SumOf(txlog[u], "DEPOSIT")
                    /\ reply'[c].total_withdrawals = SumOf(txlog[u], "WITHDRAW")
                    /\ reply'[c].current_balance =
                            initial[u] + reply'[c].total_deposits
                                - reply'[c].total_withdrawals]_vars

\* ------------------------------------------- the variants side by side
\* services.perform_operation (my-wallet-service): the same checks as
\* CRUD.perform_operation on the row read with SELECT ... FOR UPDATE, the
\* UPDATE and db.commit(), all inside 'with db.begin():'.
ServicesChecks(b, t, a) ==
    IF t = "DEPOSIT" THEN "ok"
    ELSE IF t = "WITHDRAW" THEN (IF b < a THEN "ValueError" ELSE "ok")
    ELSE "ValueError"

ServicesBalance(b, t, a) ==
    IF ServicesChecks(b, t, a) # "ok" THEN b
    ELSE IF t = "DEPOSIT" THEN b + a ELSE b - a

\* After db.commit() the function reads the wallet again, still inside the
\* 'with db.begin():' block whose transaction the commit has closed: the
\* Session refuses the statement with InvalidRequestError.
ServicesOutcome(b, t, a) ==
    IF ServicesChecks(b, t, a) # "ok" THEN ServicesChecks(b, t, a)
    ELSE "InvalidRequestError"

\* WalletRepository.update_balance on an active wallet.
RepoOutcome(b, t, a) ==
    IF t \notin OperationTypes THEN "ValueError"
    ELSE IF Insufficient(t, BalanceAfter(t, b, a)) THEN "InsufficientFunds"
    ELSE "ok"

RepoBalance(b, t, a) ==
    IF RepoOutcome(b, t, a) # "ok" THEN b ELSE BalanceAfter(t, b, a)

VariantOutcome(v, b, t, a) ==
    IF v = "CRUD" THEN CrudOutcome(b, t, a)
    ELSE IF v = "services" THEN ServicesOutcome(b, t, a)
    ELSE RepoOutcome(b, t, a)

VariantBalance(v, b, t, a) ==
    IF v = "CRUD" THEN CrudBalance(b, t, a)
    ELSE IF v = "services" THEN ServicesBalance(b, t, a)
    ELSE RepoBalance(b, t, a)

\* Each variant serves a wallet of its own; the wallets start with the same
\* balance.
SideInit ==
    /\ wallets = [u \in UUIDs |-> NoRow]
    /\ initial = [u \in UUIDs |-> 0]
    /\ txlog = [u \in UUIDs |-> <<>>]
    /\ okSum = [u \in UUIDs |-> 0]
    /\ okCnt = [u \in UUIDs |-> 0]
    /\ clock = 0
    /\ InitSessions
    /\ \E b \in InitialBalances :
            side = [v \in Variants |-> [balance |-> b, outcome |-> "none"]]

\* One request, handed to every variant.
SideRequest(t, a) ==
    /\ calls < MaxCalls
    /\ calls' = calls + 1
    /\ side' = [v \in Variants |->
                    [balance |-> VariantBalance(v, side[v].balance, t, a),
                     outcome |-> VariantOutcome(v, side[v].balance, t, a)]]
    /\ UNCHANGED <<store, lockedBy, dirty, newTx, shared, pc, req, loc, txState, err,
                   result, reply, ghost, clock>>

SideNext == \E t \in OperationTypes, a \in CrudAmounts \cup DirectAmounts : SideRequest(t, a)

SideSpec == SideInit /\ [][SideNext]_vars

\* --------------------------------------------------------------- C30
\* C30: run side by side on the same sequence of DEPOSIT / WITHDRAW
\* requests against the same initial balance, the three variants accept and
\* reject the same requests and hold the same balance after every step.
C30_VariantsAgree ==
    \A v \in Variants, w \in Variants :
        /\ side[v].balance = side[w].balance
        /\ (side[v].outcome = "ok") = (side[w].outcome = "ok")
====
